---- MODULE Spec2Model ----
(***************************************************************************)
(* Facturio: the Stripe webhook handler of app.py (idempotent event gate   *)
(* around payload assembly, SmartBill submission, invoice e-mail and the   *)
(* test-mode deletion), the county/city resolution of geocoding.py and the *)
(* one of utils.py that build_payload calls.                               *)
(***************************************************************************)
EXTENDS Integers, Sequences, FiniteSets, TLC

(***************************************************************************)
(* Bounds of the model and constants of the program.                       *)
(***************************************************************************)
\* Deliveries (requests to /stripe-webhook) in one behaviour.
MaxDeliveries == 3

\* Deliveries in a behaviour of overlapping handlers.
MaxOverlapping == 2

\* stop_after_attempt(5) of the retry decorators of smartbill.py.
MaxAttempts == 5

\* Event ids and event types Stripe delivers.
EventIds == {"evt_1", "evt_2"}

EventTypes == {"checkout.session.completed", "customer.created"}

\* Worker threads of the Flask server; SeqHandlers is the server that
\* handles one request at a time (non-overlapping deliveries).
Handlers == {1, 2}

SeqHandlers == {1}

VARIABLES
    store,        \* the idempotency store: the event ids that have a record
    pc,           \* pc[h]: where handler h is in stripe_webhook
    run,          \* run[h]: the event of handler h's run and what the run did
    resp,         \* resp[h]: the response of handler h's run
    attempt,      \* attempt[h]: attempts made by the retry decorator
    gate,         \* gate[id]: history of the id: unseen/accepted/done/rolledback
    succeeded,    \* ids for which some run returned the success response
    wedged,       \* ids whose run was killed between mark and return/rollback
    deliveries,   \* requests received so far
    TEST_MODE,    \* config["TEST_MODE"]
    invoiced,     \* ids for which SmartBill created an invoice, once or more
    gentry,       \* the function called: an entry of EntryPoints
    gaddr,        \* the client_address the function is called on
    gpc,          \* where that call is
    gqueries,     \* the geocoding queries the call issued, in order
    gres,         \* what the call returned, or that it raised
    nx,           \* a string normalize_county is applied to
    ncalls        \* the results of applying normalize_county again and again

webvars == <<store, pc, run, resp, attempt, gate, succeeded, wedged,
             deliveries, TEST_MODE, invoiced>>

resolvevars == <<gentry, gaddr, gpc, gqueries, gres>>

normvars == <<nx, ncalls>>

geovars == <<resolvevars, normvars>>

vars == <<webvars, geovars>>

(***************************************************************************)
(* The idempotency store (module idempotency) and the operator alert       *)
(* (module notifications): their calls are in app.py, their code is not in *)
(* the repository's files; the store is the key set of spec section 6      *)
(* (exists, set, delete).                                                  *)
(***************************************************************************)
is_event_processed(s, event_id) == event_id \in s

mark_event_processed(s, event_id) == s \cup {event_id}

remove_event(s, event_id) == s \ {event_id}

\* notify_admin(e): the alert is sent, or the call itself raises.
NotifyOutcomes == {"sent", "raised"}

(***************************************************************************)
(* What a run records about itself (history of the run, read by the        *)
(* properties only).                                                       *)
(***************************************************************************)
NoRun ==
    [id |-> "none", type |-> "none", sigOk |-> FALSE, storeAtStart |-> {},
     checked |-> FALSE, recAtCheck |-> FALSE, passed |-> FALSE,
     gateAtCheck |-> "none", racedCheck |-> FALSE, wrote |-> FALSE,
     removed |-> FALSE, created |-> FALSE, number |-> FALSE,
     emailFailed |-> FALSE, alerted |-> FALSE, deleted |-> FALSE,
     raisedAt |-> "none", callNoRec |-> FALSE, payload |-> {},
     session |-> [created |-> "none", amount_total |-> "none"],
     alertFailed |-> FALSE, invoicedBefore |-> FALSE]

NoResp == [status |-> 0, body |-> "none", rec |-> FALSE]

\* jsonify(...), status: the body's kind, and whether the record of the
\* run's event id is in the store as the handler returns.
Response(status, body, s, event_id) ==
    [status |-> status, body |-> body, rec |-> event_id \in s]

InFlight(h) == pc[h] \notin {"idle", "returned"}

WebInit ==
    /\ store = {}
    /\ pc = [h \in Handlers |-> "idle"]
    /\ run = [h \in Handlers |-> NoRun]
    /\ resp = [h \in Handlers |-> NoResp]
    /\ attempt = [h \in Handlers |-> 0]
    /\ gate = [id \in EventIds |-> "unseen"]
    /\ succeeded = {}
    /\ wedged = {}
    /\ deliveries = 0
    /\ TEST_MODE \in BOOLEAN
    /\ invoiced = {}

(***************************************************************************)
(* stripe_webhook of app.py, one action per call it makes.                 *)
(***************************************************************************)
\* Mutant: the signature failure is logged and the event handled anyway.
VerifiedEvent_Unchecked(sigOk) == TRUE

\* Lines 33-37: construct_event returns the event, or raises and the
\* request is rejected.
VerifiedEvent(sigOk) == sigOk

\* Mutant: the presence check is skipped.
GatePasses_Always(s, event_id) == TRUE

\* Line 41: the presence check lets the event through.
GatePasses(s, event_id) == ~is_event_processed(s, event_id)

\* Mutant: the record is not written before the processing.
StoreAfterMark_Skip(s, event_id) == s

\* Line 45: the store after the handler accepted the event.
StoreAfterMark(s, event_id) == mark_event_processed(s, event_id)

\* Mutant: the error handler leaves the record in place.
StoreAfterRollback_Keep(s, event_id) == s

\* Line 93: the store after the top-level error handler.
StoreAfterRollback(s, event_id) == remove_event(s, event_id)

\* Mutant: the error is answered with status 200.
ErrorResponse_200(s, event_id) == Response(200, "error", s, event_id)

\* Line 94: jsonify(success=False, error="Internal server error"), 500.
ErrorResponse(s, event_id) == Response(500, "error", s, event_id)

\* Mutant: no inner try, the e-mail failure reaches the top-level except.
EmailFailureNext_Propagates == "except"

\* Lines 75-78: an exception of send_invoice_email is caught by the inner
\* except, which alerts the operator and lets the handler go on.
EmailFailureNext == "email_alert"

\* Mutant: the test-mode deletion is never attempted.
AfterEmail_NoDelete(r) == "return_ok"

\* Lines 81-87: after the e-mail step the invoice is deleted in test mode
\* when the billing response carries a number, else the handler returns.
AfterEmail(r) == IF TEST_MODE /\ r.number THEN "delete" ELSE "return_ok"

\* Whether a billing or e-mail call is made while the record is absent.
CallNoRec(r) == r.callNoRec \/ r.id \notin store

\* Lines 31-37: the request is read and stripe.Webhook.construct_event
\* verifies the signature; a failure is answered 400.
construct_event(h) ==
    /\ pc[h] \in {"idle", "returned"}
    /\ deliveries < MaxDeliveries
    /\ deliveries' = deliveries + 1
    /\ \E id \in EventIds, type \in EventTypes, sigOk \in BOOLEAN :
        /\ run' = [run EXCEPT ![h] =
                     [NoRun EXCEPT !.id = id, !.type = type, !.sigOk = sigOk,
                                   !.storeAtStart = store]]
        /\ IF VerifiedEvent(sigOk)
           THEN /\ pc' = [pc EXCEPT ![h] = "check"]
                /\ resp' = [resp EXCEPT ![h] = NoResp]
           ELSE /\ pc' = [pc EXCEPT ![h] = "returned"]
                /\ resp' = [resp EXCEPT ![h] =
                              Response(400, "invalid_signature", store, id)]
    /\ attempt' = [attempt EXCEPT ![h] = 0]
    /\ UNCHANGED <<store, gate, succeeded, wedged, TEST_MODE, invoiced>>
    /\ UNCHANGED geovars

\* Mutant: a record found by the presence check is taken for stale and
\* removed while the duplicate is answered.
check_event_clears(h) ==
    /\ pc[h] = "check"
    /\ LET id == run[h].id
           passes == ~is_event_processed(store, id)
       IN /\ run' = [run EXCEPT ![h].checked = TRUE, ![h].passed = passes,
                                ![h].recAtCheck = id \in store,
                                ![h].gateAtCheck = gate[id]]
          /\ store' = remove_event(store, id)
          /\ IF passes
             THEN /\ pc' = [pc EXCEPT ![h] = "mark"]
                  /\ resp' = resp
             ELSE /\ pc' = [pc EXCEPT ![h] = "returned"]
                  /\ resp' = [resp EXCEPT ![h] =
                                Response(200, "duplicate", store, id)]
    /\ UNCHANGED <<attempt, gate, succeeded, wedged, deliveries, TEST_MODE, invoiced>>
    /\ UNCHANGED geovars

\* Lines 40-43: is_event_processed; a present record is answered as a
\* duplicate.
check_event(h) ==
    /\ pc[h] = "check"
    /\ LET id == run[h].id
           passes == GatePasses(store, id)
           raced == \E g \in Handlers \ {h} :
                        pc[g] = "mark" /\ run[g].id = id
       IN /\ run' = [run EXCEPT ![h].checked = TRUE, ![h].passed = passes,
                                ![h].recAtCheck = id \in store,
                                ![h].gateAtCheck = gate[id],
                                ![h].racedCheck = passes /\ raced]
          /\ IF passes
             THEN /\ pc' = [pc EXCEPT ![h] = "mark"]
                  /\ resp' = resp
             ELSE /\ pc' = [pc EXCEPT ![h] = "returned"]
                  /\ resp' = [resp EXCEPT ![h] =
                                Response(200, "duplicate", store, id)]
    /\ UNCHANGED <<store, attempt, gate, succeeded, wedged, deliveries,
                   TEST_MODE, invoiced>>
    /\ UNCHANGED geovars

\* Mutant: every event type is invoiced.
AfterMark_AlwaysBuild(type) == "build"

\* Lines 48 and 88-89: only checkout.session.completed is processed, any
\* other type is logged and answered with success.
AfterMark(type) ==
    IF type = "checkout.session.completed" THEN "build" ELSE "return_ok"

\* Mutant: the write is a compare-and-set, a handler that finds the record
\* written since its check answers duplicate.
mark_event_cas(h) ==
    /\ pc[h] = "mark"
    /\ IF is_event_processed(store, run[h].id)
       THEN /\ pc' = [pc EXCEPT ![h] = "returned"]
            /\ resp' = [resp EXCEPT ![h] =
                          Response(200, "duplicate", store, run[h].id)]
            /\ UNCHANGED <<store, run, gate>>
       ELSE /\ store' = mark_event_processed(store, run[h].id)
            /\ run' = [run EXCEPT ![h].wrote = TRUE]
            /\ gate' = [gate EXCEPT ![run[h].id] = "accepted"]
            /\ pc' = [pc EXCEPT ![h] =
                        IF run[h].type = "checkout.session.completed"
                        THEN "build" ELSE "return_ok"]
            /\ resp' = resp
    /\ UNCHANGED <<attempt, succeeded, wedged, deliveries, TEST_MODE, invoiced>>
    /\ UNCHANGED geovars

\* Lines 45-48 and 88-89: mark_event_processed, then the branch on the
\* event type.
mark_event(h) ==
    /\ pc[h] = "mark"
    /\ store' = StoreAfterMark(store, run[h].id)
    /\ run' = [run EXCEPT ![h].wrote = TRUE]
    /\ gate' = [gate EXCEPT ![run[h].id] = "accepted"]
    /\ pc' = [pc EXCEPT ![h] = AfterMark(run[h].type)]
    /\ UNCHANGED <<resp, attempt, succeeded, wedged, deliveries, TEST_MODE, invoiced>>
    /\ UNCHANGED geovars

\* Lines 49-51: build_payload returns the payload or raises.
BuildOutcomes == {"payload", "raised"}

\* utils.py 224-256: the sections of the payload build_payload(session,
\* config) assembles; remove_empty_values drops deliveryDate, which is "".
\* The "discount" section of a session with a promotion code is left out.
PayloadSections(cfg) ==
    {"companyVatCode", "client", "issueDate", "seriesName", "isDraft",
     "dueDate", "products", "payment"}

\* config of config.py, as far as the handler's code reads it.
Config == [TEST_MODE |-> TEST_MODE]

\* The fields of the session build_payload computes with: 'created'
\* (utils.py 165-166) and 'amount_total' (lines 177 and 244), each a
\* number or a string that is none; and whether the resolver called at
\* line 150 returns or raises.
SessionValues == {"number", "text"}

Sessions == [created : SessionValues, amount_total : SessionValues]

ResolverOutcomes == {"returned", "raised"}

\* Mutant: a value that is no number is taken for 0.
Computes_Lenient(value) == TRUE

\* datetime.fromtimestamp(value, ...) and value / 100 raise TypeError on a
\* string.
Computes(value) == value = "number"

\* Lines 148-257: build_payload returns the payload unless one of its
\* computations raises.
BuildOutcome(session, resolved) ==
    IF resolved = "returned" /\ Computes(session.created)
         /\ Computes(session.amount_total)
    THEN "payload" ELSE "raised"

build_payload_step(h) ==
    /\ pc[h] = "build"
    /\ \E session \in Sessions, resolved \in ResolverOutcomes :
        LET out == BuildOutcome(session, resolved)
        IN /\ out \in BuildOutcomes
           /\ IF out = "payload"
              THEN /\ pc' = [pc EXCEPT ![h] = "create"]
                   /\ run' = [run EXCEPT ![h].payload = PayloadSections(Config),
                                         ![h].session = session]
              ELSE /\ pc' = [pc EXCEPT ![h] = "except"]
                   /\ run' = [run EXCEPT ![h].raisedAt = "build",
                                         ![h].session = session]
    /\ UNCHANGED <<store, resp, attempt, gate, succeeded, wedged, deliveries,
                   TEST_MODE, invoiced>>
    /\ UNCHANGED geovars

\* One HTTP attempt of create_smartbill_invoice (smartbill.py 15-36, called
\* at app.py 52): the invoice is created and the JSON body returned (an
\* object with or without "number", or a body that is no object, on which
\* invoice_response.get of line 59 raises), or the attempt raises and is
\* retried up to MaxAttempts, the last failure being re-raised.
CreateOutcomes == {"number", "no_number", "no_object", "failed"}

\* Mutant: the decorator gives up one attempt later.
RetryStops_Late(attempts) == attempts >= MaxAttempts + 1

\* stop=stop_after_attempt(5) (smartbill.py 15 and 38): no attempt is made
\* after that many.
RetryStops(attempts) == attempts >= MaxAttempts

create_smartbill_invoice(h) ==
    /\ pc[h] = "create"
    /\ \E out \in CreateOutcomes :
      /\ invoiced' = IF out = "failed" THEN invoiced
                     ELSE invoiced \cup {run[h].id}
      /\
        CASE out = "failed" /\ ~RetryStops(attempt[h] + 1) ->
                /\ attempt' = [attempt EXCEPT ![h] = attempt[h] + 1]
                /\ pc' = pc
                /\ run' = [run EXCEPT ![h].callNoRec = CallNoRec(run[h])]
          [] out = "failed" /\ RetryStops(attempt[h] + 1) ->
                /\ attempt' = [attempt EXCEPT ![h] = 0]
                /\ pc' = [pc EXCEPT ![h] = "except"]
                /\ run' = [run EXCEPT ![h].callNoRec = CallNoRec(run[h]),
                                      ![h].raisedAt = "create"]
          [] out = "no_object" ->
                /\ attempt' = [attempt EXCEPT ![h] = 0]
                /\ pc' = [pc EXCEPT ![h] = "except"]
                /\ run' = [run EXCEPT ![h].callNoRec = CallNoRec(run[h]),
                                      ![h].created = TRUE,
                                      ![h].invoicedBefore = run[h].id \in invoiced,
                                      ![h].raisedAt = "response"]
          [] out \in {"number", "no_number"} ->
                /\ attempt' = [attempt EXCEPT ![h] = 0]
                /\ pc' = [pc EXCEPT ![h] = "email"]
                /\ run' = [run EXCEPT ![h].callNoRec = CallNoRec(run[h]),
                                      ![h].created = TRUE,
                                      ![h].invoicedBefore = run[h].id \in invoiced,
                                      ![h].number = (out = "number")]
    /\ UNCHANGED <<store, resp, gate, succeeded, wedged, deliveries,
                   TEST_MODE>>
    /\ UNCHANGED geovars

\* Lines 73-76: send_invoice_email; its failure is caught.
send_invoice_email(h) ==
    /\ pc[h] = "email"
    /\ \E sent \in BOOLEAN :
        IF sent
        THEN /\ pc' = [pc EXCEPT ![h] = AfterEmail(run[h])]
             /\ run' = [run EXCEPT ![h].callNoRec = CallNoRec(run[h])]
        ELSE /\ pc' = [pc EXCEPT ![h] = EmailFailureNext]
             /\ run' = [run EXCEPT ![h].callNoRec = CallNoRec(run[h]),
                                   ![h].emailFailed = TRUE]
    /\ UNCHANGED <<store, resp, attempt, gate, succeeded, wedged, deliveries,
                   TEST_MODE, invoiced>>
    /\ UNCHANGED geovars

\* Line 78: notify_admin(email_err) inside the inner except; an exception
\* of the alert leaves the inner handler and reaches the outer except.
notify_email_failure(h) ==
    /\ pc[h] = "email_alert"
    /\ \E out \in NotifyOutcomes :
        IF out = "sent"
        THEN /\ pc' = [pc EXCEPT ![h] = AfterEmail(run[h])]
             /\ run' = [run EXCEPT ![h].alerted = TRUE]
        ELSE /\ pc' = [pc EXCEPT ![h] = "except"]
             /\ run' = [run EXCEPT ![h].raisedAt = "email_alert"]
    /\ UNCHANGED <<store, resp, attempt, gate, succeeded, wedged, deliveries,
                   TEST_MODE, invoiced>>
    /\ UNCHANGED geovars

\* One HTTP attempt of delete_smartbill_invoice (smartbill.py 38-63, called
\* at app.py 84), retried like the creation.
delete_smartbill_invoice(h) ==
    /\ pc[h] = "delete"
    /\ \E ok \in BOOLEAN :
        CASE ok ->
                /\ attempt' = [attempt EXCEPT ![h] = 0]
                /\ pc' = [pc EXCEPT ![h] = "return_ok"]
                /\ run' = [run EXCEPT ![h].callNoRec = CallNoRec(run[h]),
                                      ![h].deleted = TRUE]
          [] ~ok /\ ~RetryStops(attempt[h] + 1) ->
                /\ attempt' = [attempt EXCEPT ![h] = attempt[h] + 1]
                /\ pc' = pc
                /\ run' = [run EXCEPT ![h].callNoRec = CallNoRec(run[h])]
          [] ~ok /\ RetryStops(attempt[h] + 1) ->
                /\ attempt' = [attempt EXCEPT ![h] = 0]
                /\ pc' = [pc EXCEPT ![h] = "except"]
                /\ run' = [run EXCEPT ![h].callNoRec = CallNoRec(run[h]),
                                      ![h].raisedAt = "delete"]
    /\ UNCHANGED <<store, resp, gate, succeeded, wedged, deliveries,
                   TEST_MODE, invoiced>>
    /\ UNCHANGED geovars

\* Line 96: the success response; the record stays.
return_success(h) ==
    /\ pc[h] = "return_ok"
    /\ pc' = [pc EXCEPT ![h] = "returned"]
    /\ resp' = [resp EXCEPT ![h] = Response(200, "success", store, run[h].id)]
    /\ gate' = [gate EXCEPT ![run[h].id] = "done"]
    /\ succeeded' = succeeded \cup {run[h].id}
    /\ UNCHANGED <<store, run, attempt, wedged, deliveries, TEST_MODE, invoiced>>
    /\ UNCHANGED geovars

\* Lines 90-92: the top-level except calls notify_admin(e); when the alert
\* itself raises, the exception leaves stripe_webhook before line 93 and
\* Flask answers 500 without a JSON body.
notify_admin_step(h) ==
    /\ pc[h] = "except"
    /\ \E out \in NotifyOutcomes :
        IF out = "sent"
        THEN /\ pc' = [pc EXCEPT ![h] = "rollback"]
             /\ run' = [run EXCEPT ![h].alerted = TRUE]
             /\ resp' = resp
        ELSE /\ pc' = [pc EXCEPT ![h] = "returned"]
             /\ run' = [run EXCEPT ![h].alertFailed = TRUE]
             /\ resp' = [resp EXCEPT ![h] =
                           Response(500, "unhandled", store, run[h].id)]
    /\ UNCHANGED <<store, attempt, gate, succeeded, wedged, deliveries,
                   TEST_MODE, invoiced>>
    /\ UNCHANGED geovars

\* Lines 93-94: remove_event, then the error response.
rollback_event(h) ==
    /\ pc[h] = "rollback"
    /\ store' = StoreAfterRollback(store, run[h].id)
    /\ run' = [run EXCEPT ![h].removed = TRUE]
    /\ gate' = [gate EXCEPT ![run[h].id] = "rolledback"]
    /\ resp' = [resp EXCEPT ![h] = ErrorResponse(store', run[h].id)]
    /\ pc' = [pc EXCEPT ![h] = "returned"]
    /\ UNCHANGED <<attempt, succeeded, wedged, deliveries, TEST_MODE, invoiced>>
    /\ UNCHANGED geovars

\* The server process (app.run, lines 98-100) is killed while requests are
\* in flight: every handler's run is lost, the store (an external
\* database) keeps its records.
kill_process ==
    /\ \E h \in Handlers : InFlight(h)
    /\ wedged' = wedged \cup
                   {run[h].id : h \in {g \in Handlers :
                        InFlight(g) /\ run[g].wrote /\ ~run[g].removed}}
    /\ pc' = [h \in Handlers |-> "idle"]
    /\ run' = [h \in Handlers |-> NoRun]
    /\ resp' = [h \in Handlers |-> NoResp]
    /\ attempt' = [h \in Handlers |-> 0]
    /\ UNCHANGED <<store, gate, succeeded, deliveries, TEST_MODE, invoiced>>
    /\ UNCHANGED geovars

\* The handler after the signature check.
handle_event(h) ==
    \/ check_event(h)
    \/ mark_event(h)
    \/ build_payload_step(h)
    \/ create_smartbill_invoice(h)
    \/ send_invoice_email(h)
    \/ notify_email_failure(h)
    \/ delete_smartbill_invoice(h)
    \/ return_success(h)
    \/ notify_admin_step(h)
    \/ rollback_event(h)

stripe_webhook(h) == construct_event(h) \/ handle_event(h)

(***************************************************************************)
(* geocoding.py.  A string is the sequence of its characters; a character  *)
(* outside ASCII is written by its name ("s_comma" is U+0219, "a_breve"    *)
(* U+0103, "comb" a combining mark, "eszett" U+00DF, "nbsp" U+00A0).        *)
(***************************************************************************)
UpperChars ==
    << "A", "B", "C", "D", "E", "F", "G", "H", "I", "J", "K", "L", "M",
       "N", "O", "P", "Q", "R", "S", "T", "U", "V", "W", "X", "Y", "Z",
       "A_breve", "A_circ", "I_circ", "S_comma", "T_comma" >>

LowerChars ==
    << "a", "b", "c", "d", "e", "f", "g", "h", "i", "j", "k", "l", "m",
       "n", "o", "p", "q", "r", "s", "t", "u", "v", "w", "x", "y", "z",
       "a_breve", "a_circ", "i_circ", "s_comma", "t_comma" >>

\* The precomposed letters and the base letter NFKD decomposes each to.
Precomposed ==
    << "a_breve", "a_circ", "i_circ", "s_comma", "t_comma", "A_breve", "A_circ", "I_circ", "S_comma", "T_comma" >>

BaseLetter ==
    << "a", "a", "i", "s", "t", "A", "A", "I", "S", "T" >>

IndexOf(c, s) == CHOOSE i \in 1..Len(s) : s[i] = c

InSeq(c, s) == \E i \in 1..Len(s) : s[i] = c

\* str.lower and str.upper on one character.
lower_char(c) == IF InSeq(c, UpperChars) THEN LowerChars[IndexOf(c, UpperChars)] ELSE c

upper_char(c) == IF InSeq(c, LowerChars) THEN UpperChars[IndexOf(c, LowerChars)] ELSE c

str_lower(s) == [i \in 1..Len(s) |-> lower_char(s[i])]

\* unicodedata.normalize('NFKD', s): a precomposed letter becomes its base
\* letter and a combining mark, a no-break space becomes a space.
nfkd_char(c) ==
    IF InSeq(c, Precomposed) THEN <<BaseLetter[IndexOf(c, Precomposed)], "comb">>
    ELSE IF c = "nbsp" THEN <<" ">>
    ELSE <<c>>

RECURSIVE nfkd(_)
nfkd(s) == IF s = <<>> THEN <<>> ELSE nfkd_char(Head(s)) \o nfkd(Tail(s))

\* .encode('ASCII', 'ignore').decode('ASCII'): what is not ASCII is dropped.
NonAscii == {"comb", "eszett", "nbsp"} \cup {Precomposed[i] : i \in 1..Len(Precomposed)}

IsAscii(c) == c \notin NonAscii

ascii_ignore(s) == SelectSeq(s, IsAscii)

\* str.strip(): leading and trailing whitespace removed.
Whitespace == {" ", "tab", "nbsp"}

RECURSIVE lstrip(_, _)
lstrip(s, chars) ==
    IF s # <<>> /\ Head(s) \in chars THEN lstrip(Tail(s), chars) ELSE s

RECURSIVE rstrip(_, _)
rstrip(s, chars) ==
    IF s # <<>> /\ s[Len(s)] \in chars
    THEN rstrip(SubSeq(s, 1, Len(s) - 1), chars) ELSE s

strip(s, chars) == rstrip(lstrip(s, chars), chars)

\* str.capitalize(): the first character upper-case, the rest lower-case.
capitalize(s) ==
    IF s = <<>> THEN <<>> ELSE <<upper_char(Head(s))>> \o str_lower(Tail(s))

\* Mutant: the whitespace is trimmed before the characters outside ASCII
\* are dropped.
normalize_county_StripFirst(county) ==
    capitalize(ascii_ignore(nfkd(strip(county, Whitespace))))

\* Lines 30-36.
normalize_county(county) == capitalize(strip(ascii_ignore(nfkd(county)), Whitespace))

\* Lines 22-28.
VALID_COUNTIES ==
    << <<"A", "l", "b", "a">>,
       <<"A", "r", "a", "d">>,
       <<"A", "r", "g", "e", "s">>,
       <<"B", "a", "c", "a", "u">>,
       <<"B", "i", "h", "o", "r">>,
       <<"B", "i", "s", "t", "r", "i", "t", "a", "-", "N", "a", "s", "a", "u", "d">>,
       <<"B", "o", "t", "o", "s", "a", "n", "i">>,
       <<"B", "r", "a", "s", "o", "v">>,
       <<"B", "r", "a", "i", "l", "a">>,
       <<"B", "u", "z", "a", "u">>,
       <<"C", "a", "r", "a", "s", "-", "S", "e", "v", "e", "r", "i", "n">>,
       <<"C", "l", "u", "j">>,
       <<"C", "o", "n", "s", "t", "a", "n", "t", "a">>,
       <<"C", "o", "v", "a", "s", "n", "a">>,
       <<"D", "a", "m", "b", "o", "v", "i", "t", "a">>,
       <<"D", "o", "l", "j">>,
       <<"G", "a", "l", "a", "t", "i">>,
       <<"G", "i", "u", "r", "g", "i", "u">>,
       <<"G", "o", "r", "j">>,
       <<"H", "a", "r", "g", "h", "i", "t", "a">>,
       <<"H", "u", "n", "e", "d", "o", "a", "r", "a">>,
       <<"I", "a", "l", "o", "m", "i", "t", "a">>,
       <<"I", "a", "s", "i">>,
       <<"I", "l", "f", "o", "v">>,
       <<"M", "a", "r", "a", "m", "u", "r", "e", "s">>,
       <<"M", "e", "h", "e", "d", "i", "n", "t", "i">>,
       <<"M", "u", "r", "e", "s">>,
       <<"N", "e", "a", "m", "t">>,
       <<"O", "l", "t">>,
       <<"P", "r", "a", "h", "o", "v", "a">>,
       <<"S", "a", "t", "u", " ", "M", "a", "r", "e">>,
       <<"S", "a", "l", "a", "j">>,
       <<"S", "i", "b", "i", "u">>,
       <<"S", "u", "c", "e", "a", "v", "a">>,
       <<"T", "e", "l", "e", "o", "r", "m", "a", "n">>,
       <<"T", "i", "m", "i", "s">>,
       <<"T", "u", "l", "c", "e", "a">>,
       <<"V", "a", "s", "l", "u", "i">>,
       <<"V", "a", "l", "c", "e", "a">>,
       <<"V", "r", "a", "n", "c", "e", "a">>,
       <<"B", "u", "c", "u", "r", "e", "s", "t", "i">> >>

\* Line 51: normalized.lower() in [vc.lower() for vc in VALID_COUNTIES].
ValidLower == {str_lower(VALID_COUNTIES[i]) : i \in 1..Len(VALID_COUNTIES)}

IsValidCounty(normalized) == str_lower(normalized) \in ValidLower

\* ', '.join(parts).
RECURSIVE Join(_)
Join(parts) ==
    IF parts = <<>> THEN <<>>
    ELSE IF Len(parts) = 1 THEN parts[1]
    ELSE parts[1] \o <<",", " ">> \o Join(Tail(parts))

NonEmpty(part) == part # <<>>

\* re.compile(r'Sector\s*\d+', re.IGNORECASE).search(field): the leftmost
\* match, <<>> when there is none.
Digits == {"0", "1", "2", "3", "4", "5", "6", "7", "8", "9"}

S_sector == <<"s", "e", "c", "t", "o", "r">>

RECURSIVE SkipWhile(_, _, _)
SkipWhile(s, i, chars) ==
    IF i <= Len(s) /\ s[i] \in chars THEN SkipWhile(s, i + 1, chars) ELSE i

MatchesAt(s, i) ==
    /\ i + 5 <= Len(s)
    /\ str_lower(SubSeq(s, i, i + 5)) = S_sector
    /\ LET j == SkipWhile(s, i + 6, Whitespace)
       IN j <= Len(s) /\ s[j] \in Digits

sector_search(s) ==
    IF \E i \in 1..Len(s) : MatchesAt(s, i)
    THEN LET i == CHOOSE k \in 1..Len(s) :
                    MatchesAt(s, k) /\ \A m \in 1..(k - 1) : ~MatchesAt(s, m)
             j == SkipWhile(s, i + 6, Whitespace)
         IN SubSeq(s, i, SkipWhile(s, j, Digits) - 1)
    ELSE <<>>

\* Mutant: line2 is scanned before line1.
FirstSector_Line2First(line1, line2) ==
    IF line2 # <<>> /\ sector_search(line2) # <<>> THEN sector_search(line2)
    ELSE IF line1 # <<>> THEN sector_search(line1)
    ELSE <<>>

\* Lines 128-135: line1 is scanned before line2, the first match is kept.
FirstSector(line1, line2) ==
    IF line1 # <<>> /\ sector_search(line1) # <<>> THEN sector_search(line1)
    ELSE IF line2 # <<>> THEN sector_search(line2)
    ELSE <<>>

\* The literals of the module.
S_Bucuresti == <<"B", "u", "c", "u", "r", "e", "s", "t", "i">>

S_bucuresti == <<"b", "u", "c", "u", "r", "e", "s", "t", "i">>

S_bucuresti_comma == <<"b", "u", "c", "u", "r", "e", "s_comma", "t", "i">>

S_UnknownCity == <<"U", "n", "k", "n", "o", "w", "n", " ", "C", "i", "t", "y">>

S_UnknownCountry == <<"U", "n", "k", "n", "o", "w", "n", " ", "C", "o", "u", "n", "t", "r", "y">>

S_UnknownCounty == <<"U", "n", "k", "n", "o", "w", "n", " ", "C", "o", "u", "n", "t", "y">>

S_UnknownSector == <<"U", "n", "k", "n", "o", "w", "n", " ", "S", "e", "c", "t", "o", "r">>

\* A key the address dict does not hold, and dict.get(key, default).
Absent == <<"(absent)">>

Get(address, key, default) ==
    IF address[key] = Absent THEN default ELSE address[key]

\* The customer addresses of the Stripe session.
Cities ==
    { Absent,
      <<"B", "u", "c", "u", "r", "e", "s", "t", "i">>,
      <<"B", "U", "C", "U", "R", "E", "S_comma", "T", "I">>,
      <<"C", "l", "u", "j", "-", "N", "a", "p", "o", "c", "a">> }

States ==
    { Absent,
      <<>>,
      <<"C", "l", "u", "j">>,
      <<"K", "o", "l", "o", "z", "s", "v", "a", "r">>,
      <<" ", " ">>,
      <<"s", "a", "t", "u", " ", "m", "a", "r", "e">>,
      <<"B", "I", "S", "T", "R", "I", "T_comma", "A", "-", "N", "A_breve", "S", "A_breve", "U", "D">>,
      <<"eszett">> }

Line1s ==
    { Absent,
      <<"S", "t", "r", ".", " ", "X", " ", "1">>,
      <<"B", "d", ".", " ", "Y", ",", " ", "S", "e", "c", "t", "o", "r", " ", "3">> }

Line2s ==
    { Absent,
      <<"s", "e", "c", "t", "o", "r", "5">> }

PostalCodes ==
    { Absent,
      <<"4", "0", "0", "2", "7", "5">> }

Countries ==
    { Absent,
      <<"R", "O">> }

Addresses ==
    [city : Cities, state : States, line1 : Line1s, line2 : Line2s,
     postal_code : PostalCodes, country : Countries]

NoAddress ==
    [city |-> Absent, state |-> Absent, line1 |-> Absent, line2 |-> Absent,
     postal_code |-> Absent, country |-> Absent]

\* geolocator.geocode(query, addressdetails=True): a location whose
\* raw['address'] holds some of the fields read (<<>>: the field is not
\* there), None, geopy's GeocoderTimedOut, or another exception of geopy
\* (GeocoderServiceError, GeocoderUnavailable, ...).
ProviderOutcomes == {"location", "none", "timeout", "error"}

GeoCounties ==
    { <<>>,
      <<"C", "l", "u", "j">> }

GeoStates ==
    { <<>>,
      <<"I", "l", "f", "o", "v">> }

GeoRegions ==
    { <<>>,
      <<"N", "o", "r", "d", "-", "V", "e", "s", "t">> }

GeoDistricts ==
    { <<>>,
      <<"S", "e", "c", "t", "o", "r", " ", "2">> }

GeoSuburbs ==
    { <<>>,
      <<"S", "e", "c", "t", "o", "r", " ", "1">> }

AddressData ==
    [county : GeoCounties, state : GeoStates, region : GeoRegions,
     city_district : GeoDistricts, suburb : GeoSuburbs]

\* What one call of geolocator.geocode does: a location with its address
\* breakdown, or one of the other outcomes (no breakdown to read).
NoData ==
    [county |-> <<>>, state |-> <<>>, region |-> <<>>,
     city_district |-> <<>>, suburb |-> <<>>]

ProviderAnswers ==
    {[out |-> "location", data |-> d] : d \in AddressData}
      \cup {[out |-> o, data |-> NoData] : o \in ProviderOutcomes \ {"location"}}

\* Mutant: the last operand is preferred.
Or3_Reversed(a, b, c) == IF c # <<>> THEN c ELSE IF b # <<>> THEN b ELSE a

\* a or b or c: the first operand that is not empty.
Or3(a, b, c) == IF a # <<>> THEN a ELSE IF b # <<>> THEN b ELSE c

NoResult == [kind |-> "none", county |-> <<>>, city |-> <<>>]

ReturnPair(county, city) == [kind |-> "returned", county |-> county, city |-> city]

Raised == [kind |-> "raised", county |-> <<>>, city |-> <<>>]

\* One geocoding query: which lookup issued it, its text, how the provider
\* answered, the county (or sector) read from the answer, <<>> for none,
\* and the fields of the address breakdown the lookup reads.
Query(kind, text, out, found, data) ==
    [kind |-> kind, text |-> text, out |-> out, found |-> found, data |-> data]

\* Lines 68-70 and 88-90 read county, state and region; line 144 reads
\* city_district and suburb.
CountyFields(data) == [data EXCEPT !.city_district = <<>>, !.suburb = <<>>]

SectorFields(data) ==
    [data EXCEPT !.county = <<>>, !.state = <<>>, !.region = <<>>]

\* The functions a county is asked from: resolve_county_and_city and
\* validate_county of geocoding.py, and resolve_county_and_city of
\* utils.py, the one build_payload calls (app.py 12, utils.py 150).
EntryPoints ==
    {"resolve_county_and_city", "validate_county",
     "utils.resolve_county_and_city"}

\* Mutant: only the spelling without diacritics is recognised.
IsBucharest_AsciiOnly(city) == str_lower(city) = S_bucuresti

\* Line 126 (utils.py 41): city.lower() in ['bucuresti', 'bucurești'].
IsBucharest(city) == str_lower(city) \in {S_bucuresti, S_bucuresti_comma}

\* Mutant: the county is always looked up.
OfflineAccepts_Never(raw_county) == FALSE

\* Lines 49-51: a raw county that normalizes to a standard county.
OfflineAccepts(raw_county) ==
    raw_county # <<>> /\ IsValidCounty(normalize_county(raw_county))

\* Mutant: the time-out is not caught either.
SectorLookupCatches_Nothing(out) == FALSE

\* Lines 148-150 (utils.py 65-67): except GeocoderTimedOut.
SectorLookupCatches(out) == out = "timeout"

\* Mutant: only the time-out is caught, as in the Bucharest branch.
CountyLookupCatches_TimeoutOnly(out) == out = "timeout"

\* Lines 77 and 96: except Exception.
CountyLookupCatches(out) == out \in {"timeout", "error"}

\* Mutant: the raw county is forgotten when the lookups fail.
FallbackCounty_Unknown(raw_county) == S_UnknownCounty

\* Line 100: normalized if raw_county else 'Unknown County'.
FallbackCounty(raw_county) ==
    IF raw_county # <<>> THEN normalize_county(raw_county) ELSE S_UnknownCounty

\* Line 155: the city the caller pairs with the county; a direct call of
\* validate_county returns the county alone.
CallerCity ==
    IF gentry = "validate_county" THEN <<>>
    ELSE Get(gaddr, "city", S_UnknownCity)

\* Lines 119-137 and 152-154: the part of resolve_county_and_city before
\* the first geocoding call; another city than Bucharest goes to
\* validate_county.
resolve_start ==
    /\ gpc = "start"
    /\ gentry = "resolve_county_and_city"
    /\ LET city == Get(gaddr, "city", S_UnknownCity)
           line1 == Get(gaddr, "line1", <<>>)
           line2 == Get(gaddr, "line2", <<>>)
       IN IF IsBucharest(city)
          THEN IF FirstSector(line1, line2) # <<>>
               THEN /\ gres' = ReturnPair(S_Bucuresti, FirstSector(line1, line2))
                    /\ gpc' = "done"
               ELSE /\ gres' = gres
                    /\ gpc' = "sector_query"
          ELSE /\ gres' = gres
               /\ gpc' = "validate"
    /\ UNCHANGED <<gentry, gaddr, gqueries>>
    /\ UNCHANGED normvars
    /\ UNCHANGED webvars

\* Lines 49-56 of validate_county(raw_county, client_address), raw_county
\* being the address's state (line 153): a standard county is returned
\* without a lookup.
validate_start ==
    /\ gpc = "validate"
    /\ LET raw_county == Get(gaddr, "state", <<>>)
       IN IF OfflineAccepts(raw_county)
          THEN /\ gres' = ReturnPair(normalize_county(raw_county), CallerCity)
               /\ gpc' = "done"
          ELSE /\ gres' = gres
               /\ gpc' = "postal_query"
    /\ UNCHANGED <<gentry, gaddr, gqueries>>
    /\ UNCHANGED normvars
    /\ UNCHANGED webvars

\* utils.py 34-55 and 68-69: the resolver build_payload calls; for another
\* city than Bucharest a state that is not blank is the county as it is.
utils_start ==
    /\ gpc = "start"
    /\ gentry = "utils.resolve_county_and_city"
    /\ LET city == Get(gaddr, "city", S_UnknownCity)
           line1 == Get(gaddr, "line1", <<>>)
           line2 == Get(gaddr, "line2", <<>>)
           county == strip(Get(gaddr, "state", <<>>), Whitespace)
       IN IF IsBucharest(city)
          THEN IF FirstSector(line1, line2) # <<>>
               THEN /\ gres' = ReturnPair(S_Bucuresti, FirstSector(line1, line2))
                    /\ gpc' = "done"
               ELSE /\ gres' = gres
                    /\ gpc' = "sector_query"
          ELSE IF county # <<>>
               THEN /\ gres' = ReturnPair(county, city)
                    /\ gpc' = "done"
               ELSE /\ gres' = gres
                    /\ gpc' = "county_query"
    /\ UNCHANGED <<gentry, gaddr, gqueries>>
    /\ UNCHANGED normvars
    /\ UNCHANGED webvars

\* Lines 139-151 (utils.py 55-67, the same code): the geocoding call of
\* the Bucharest path.
sector_lookup ==
    /\ gpc = "sector_query"
    /\ LET city == Get(gaddr, "city", S_UnknownCity)
           query == Join(SelectSeq(<<Get(gaddr, "line1", <<>>), city,
                                     Get(gaddr, "postal_code", <<>>),
                                     Get(gaddr, "country", S_UnknownCountry)>>,
                                   NonEmpty))
       IN \E ans \in ProviderAnswers :
            LET out == ans.out
                data == ans.data
                found == IF out = "location"
                         THEN Or3(data.city_district, data.suburb, <<>>)
                         ELSE <<>>
            IN /\ gqueries' = Append(gqueries, Query("sector", query, out, found,
                                                SectorFields(data)))
               /\ gres' = CASE out = "location" ->
                                 ReturnPair(S_Bucuresti,
                                            Or3(data.city_district, data.suburb,
                                                S_UnknownSector))
                            [] out = "none" ->
                                 ReturnPair(S_Bucuresti, S_UnknownSector)
                            [] out \in {"timeout", "error"} ->
                                 IF SectorLookupCatches(out)
                                 THEN ReturnPair(S_Bucuresti, S_UnknownSector)
                                 ELSE Raised
    /\ gpc' = "done"
    /\ UNCHANGED <<gentry, gaddr>>
    /\ UNCHANGED normvars
    /\ UNCHANGED webvars

\* Lines 58-78 of validate_county: the lookup by postal code and country.
postal_lookup ==
    /\ gpc = "postal_query"
    /\ LET query == strip(Join(<<Get(gaddr, "postal_code", <<>>),
                                 Get(gaddr, "country", <<>>)>>), {",", " "})
       IN \E ans \in ProviderAnswers :
            LET out == ans.out
                data == ans.data
                found == IF out = "location"
                         THEN Or3(data.county, data.state, data.region)
                         ELSE <<>>
            IN /\ gqueries' = Append(gqueries, Query("postal", query, out, found,
                                                CountyFields(data)))
               /\ IF found # <<>>
                  THEN /\ gres' = ReturnPair(normalize_county(found), CallerCity)
                       /\ gpc' = "done"
                  ELSE IF out \in {"location", "none"} \/ CountyLookupCatches(out)
                  THEN /\ gres' = gres
                       /\ gpc' = "city_query"
                  ELSE /\ gres' = Raised
                       /\ gpc' = "done"
    /\ UNCHANGED <<gentry, gaddr>>
    /\ UNCHANGED normvars
    /\ UNCHANGED webvars

\* Lines 80-102 of validate_county: the lookup by city and country, and
\* the fallback when it gives nothing.
city_lookup ==
    /\ gpc = "city_query"
    /\ LET raw_county == Get(gaddr, "state", <<>>)
           query == strip(Join(<<Get(gaddr, "city", <<>>),
                                 Get(gaddr, "country", <<>>)>>), {",", " "})
           fallback == FallbackCounty(raw_county)
       IN \E ans \in ProviderAnswers :
            LET out == ans.out
                data == ans.data
                found == IF out = "location"
                         THEN Or3(data.county, data.state, data.region)
                         ELSE <<>>
            IN /\ gqueries' = Append(gqueries, Query("city", query, out, found,
                                                CountyFields(data)))
               /\ gres' = IF out = "location"
                          THEN ReturnPair(
                                 normalize_county(
                                   IF found # <<>> THEN found
                                   ELSE S_UnknownCounty),
                                 CallerCity)
                          ELSE IF out = "none" \/ CountyLookupCatches(out)
                          THEN ReturnPair(fallback, CallerCity)
                          ELSE Raised
    /\ gpc' = "done"
    /\ UNCHANGED <<gentry, gaddr>>
    /\ UNCHANGED normvars
    /\ UNCHANGED webvars

\* utils.py 70-84: the one lookup of the resolver of utils.py for a blank
\* state; the county of the answer is taken as it is.
utils_county_lookup ==
    /\ gpc = "county_query"
    /\ LET city == Get(gaddr, "city", S_UnknownCity)
           query == Join(SelectSeq(<<Get(gaddr, "line1", <<>>), city,
                                     Get(gaddr, "postal_code", <<>>),
                                     Get(gaddr, "country", S_UnknownCountry)>>,
                                   NonEmpty))
       IN \E ans \in ProviderAnswers :
            LET out == ans.out
                data == ans.data
                found == IF out = "location"
                         THEN Or3(data.county, data.state, data.region)
                         ELSE <<>>
            IN /\ gqueries' = Append(gqueries, Query("county", query, out, found,
                                                CountyFields(data)))
               /\ gres' = CASE out = "location" ->
                                 ReturnPair(IF found # <<>> THEN found
                                            ELSE S_UnknownCounty, city)
                            [] out = "none" -> ReturnPair(S_UnknownCounty, city)
                            [] out \in {"timeout", "error"} ->
                                 IF SectorLookupCatches(out)
                                 THEN ReturnPair(S_UnknownCounty, city)
                                 ELSE Raised
    /\ gpc' = "done"
    /\ UNCHANGED <<gentry, gaddr>>
    /\ UNCHANGED normvars
    /\ UNCHANGED webvars

\* validate_county(raw_county, client_address) of geocoding.py.
validate_county ==
    \/ validate_start
    \/ postal_lookup
    \/ city_lookup

\* resolve_county_and_city(client_address), of geocoding.py or of
\* utils.py, or validate_county called by itself, once on an address of
\* Addresses.
resolve_county_and_city ==
    \/ resolve_start
    \/ utils_start
    \/ sector_lookup
    \/ utils_county_lookup
    \/ validate_county

\* No string is being normalized.
NormIdle ==
    /\ nx = <<>>
    /\ ncalls = <<>>

\* No address is being resolved.
ResolveIdle ==
    /\ gentry = "none"
    /\ gaddr = NoAddress
    /\ gpc = "off"
    /\ gqueries = <<>>
    /\ gres = NoResult

\* One call of an entry point on an address; the server is idle and the
\* test-mode flag, which none of these functions reads, is off.
InitGeo ==
    /\ WebInit
    /\ ~TEST_MODE
    /\ NormIdle
    /\ gentry \in EntryPoints
    /\ gaddr \in Addresses
    /\ gpc = IF gentry = "validate_county" THEN "validate" ELSE "start"
    /\ gqueries = <<>>
    /\ gres = NoResult

SpecGeo == InitGeo /\ [][resolve_county_and_city]_vars

\* normalize_county applied to a string of NormInputs, then to its own
\* result.
MaxLen == 3

MaxApplications == 2

NormAlphabet == {"a", "B", " ", "-", "tab", "nbsp", "S_comma", "comb", "eszett"}

NormInputs == UNION {[1..n -> NormAlphabet] : n \in 0..MaxLen}

normalize_call ==
    /\ Len(ncalls) < MaxApplications
    /\ ncalls' = Append(ncalls,
                        normalize_county(IF ncalls = <<>> THEN nx
                                         ELSE ncalls[Len(ncalls)]))
    /\ UNCHANGED nx
    /\ UNCHANGED resolvevars
    /\ UNCHANGED webvars

\* One string to normalize; the server is idle, the flag off.
InitNorm ==
    /\ WebInit
    /\ ~TEST_MODE
    /\ ResolveIdle
    /\ nx \in NormInputs
    /\ ncalls = <<>>

SpecNorm == InitNorm /\ [][normalize_call]_vars

\* The server after start-up: no request yet, no address being resolved.
Init ==
    /\ WebInit
    /\ ResolveIdle
    /\ NormIdle

\* Handlers of overlapping requests, interleaved call by call.
Next ==
    \E h \in Handlers :
        \/ deliveries < MaxOverlapping /\ construct_event(h)
        \/ handle_event(h)

Spec == Init /\ [][Next]_vars

\* One request at a time; the process may be killed during a request.
NextSeq == (\E h \in SeqHandlers : stripe_webhook(h)) \/ kill_process

SpecSeq == Init /\ [][NextSeq]_vars

(***************************************************************************)
(* Properties of the idempotent event gate.                                *)
(***************************************************************************)
Returned(h) == pc[h] = "returned"

Rejected(h) == Returned(h) /\ resp[h].body \in {"invalid_signature", "duplicate"}

NoSideEffect(r) ==
    /\ ~r.wrote /\ ~r.removed /\ ~r.created /\ ~r.deleted
    /\ ~r.emailFailed /\ ~r.alerted /\ r.raisedAt = "none"

\* C1: with deliveries handled one after the other, a delivery passes the
\* presence check exactly when its id was never accepted or its last
\* accepted run was rolled back; a delivery of an id that is accepted or
\* done is answered as a duplicate and does nothing else.
C1_GateSequential ==
    \A h \in Handlers :
        run[h].checked =>
            /\ run[h].passed <=> run[h].gateAtCheck \in {"unseen", "rolledback"}
            /\ run[h].passed /\ pc[h] # "mark" => run[h].wrote
            /\ ~run[h].passed =>
                  /\ Returned(h)
                  /\ resp[h].body = "duplicate"
                  /\ NoSideEffect(run[h])

\* C1 witness: a delivery of an id whose earlier run was rolled back passed
\* the check, was processed and returned success.
C1_Witness ==
    \E h \in Handlers :
        /\ Returned(h)
        /\ run[h].gateAtCheck = "rolledback"
        /\ run[h].passed
        /\ run[h].created
        /\ resp[h].body = "success"

\* C2: a run in which build_payload, create_smartbill_invoice or the
\* test-mode deletion raised returns the error response, with the record of
\* its event id absent from the store and the operator alert raised.
C2_RaiseRollsBack ==
    \A h \in Handlers :
        Returned(h) /\ run[h].raisedAt \in {"build", "create", "delete"} =>
            /\ resp[h].body = "error"
            /\ ~resp[h].rec
            /\ run[h].alerted

C4_Only400Or200 ==
    \A h \in Handlers :
        Returned(h) /\ resp[h].body # "unhandled" =>
            \/ resp[h].status = 400 /\ resp[h].body = "invalid_signature"
            \/ resp[h].status = 200
                 /\ resp[h].body \in {"success", "duplicate", "error"}

\* C4 amended: a response is 400 for a failed signature check, 200 for
\* success and for a duplicate, and 500 for an internal processing error
\* (with the failure body when the error handler completes).
C4_ResponseStatuses ==
    \A h \in Handlers :
        Returned(h) =>
            /\ resp[h].body \in {"invalid_signature", "success", "duplicate",
                                 "error", "unhandled"}
            /\ resp[h].status = 400 <=> resp[h].body = "invalid_signature"
            /\ resp[h].status = 200 <=> resp[h].body \in {"success", "duplicate"}
            /\ resp[h].status = 500 <=> resp[h].body \in {"error", "unhandled"}
            /\ resp[h].body = "invalid_signature" <=> ~run[h].sigOk
            /\ resp[h].body = "error" <=> run[h].removed

\* C4 witness: a processing error answered with status 500 and the failure
\* body.
C4_Witness ==
    \E h \in Handlers :
        /\ Returned(h)
        /\ run[h].raisedAt = "create"
        /\ resp[h].body = "error"
        /\ resp[h].status = 500

\* C5: once a run returned success for an id, the record of the id is in
\* the store in every later state, and every later delivery of the id is
\* answered as a duplicate without being processed.
C5_DoneStays ==
    /\ succeeded \subseteq store
    /\ \A h \in Handlers :
          run[h].checked /\ run[h].gateAtCheck = "done" =>
              /\ ~run[h].passed
              /\ Returned(h)
              /\ resp[h].body = "duplicate"
              /\ resp[h].rec
              /\ NoSideEffect(run[h])

\* C5 witness: a delivery of an id that was processed successfully before
\* is answered as a duplicate.
C5_Witness ==
    \E h \in Handlers :
        /\ Returned(h)
        /\ run[h].id \in succeeded
        /\ run[h].gateAtCheck = "done"
        /\ resp[h].body = "duplicate"

\* C6: a request whose signature fails, or whose event id has a record at
\* the presence check, ends rejected with the store as it was when the
\* request arrived and without any billing, deletion, e-mail or alert call.
C6_RejectedChangesNothing ==
    \A h \in Handlers :
        /\ run[h].id # "none" /\ ~run[h].sigOk =>
              /\ Returned(h)
              /\ resp[h].status = 400
              /\ ~run[h].checked
              /\ NoSideEffect(run[h])
              /\ store = run[h].storeAtStart
        /\ run[h].checked /\ run[h].recAtCheck =>
              /\ Returned(h)
              /\ resp[h].body = "duplicate"
              /\ NoSideEffect(run[h])
              /\ store = run[h].storeAtStart

\* C6 witness: both rejections happen, a failed signature check on an id
\* that has a record is the state shown.
C6_Witness ==
    \E h \in Handlers :
        /\ Returned(h)
        /\ ~run[h].sigOk
        /\ resp[h].body = "invalid_signature"
        /\ run[h].id \in store

\* C7: with deliveries handled one after the other, no billing, deletion
\* or e-mail call of a run is made while the record of the run's event id
\* is absent from the store.
C7_RecordBeforeSideEffects ==
    \A h \in Handlers :
        /\ ~run[h].callNoRec
        /\ pc[h] \in {"build", "create", "email", "email_alert", "delete"}
              => run[h].wrote /\ run[h].id \in store

\* C7 witness: a run that created, e-mailed and deleted an invoice.
C7_Witness ==
    \E h \in Handlers :
        /\ Returned(h)
        /\ run[h].created
        /\ run[h].deleted
        /\ ~run[h].emailFailed
        /\ resp[h].body = "success"

\* C8: the presence check and the write are separate steps with no second
\* check at the write: a handler that passed the check writes the record
\* and goes on whatever the store holds by then, and is never answered as
\* a duplicate.
C8_NoRecheckAtWrite ==
    \A h \in Handlers :
        run[h].passed =>
            /\ pc[h] # "mark" => run[h].wrote
            /\ resp[h].body # "duplicate"

\* C8 witness: two handlers of the same event id both passed the presence
\* check before either wrote the record, and both created an invoice.
C8_BothCreate ==
    \E h \in Handlers, g \in Handlers :
        /\ h # g
        /\ run[h].id = run[g].id
        /\ run[h].racedCheck
        /\ run[h].passed /\ run[g].passed
        /\ run[h].created /\ run[g].created

\* C9: an id whose run was killed after the record was written and before
\* the run returned or removed it keeps its record, and every later
\* delivery of it is answered as a duplicate and is not processed.
C9_KilledRunWedges ==
    /\ wedged \subseteq store
    /\ \A h \in Handlers :
          run[h].checked /\ run[h].id \in wedged =>
              /\ ~run[h].passed
              /\ Returned(h)
              /\ resp[h].body = "duplicate"
              /\ NoSideEffect(run[h])

\* C9 witness: a delivery of a wedged id answered as a duplicate.
C9_Witness ==
    \E h \in Handlers :
        /\ Returned(h)
        /\ run[h].id \in wedged
        /\ resp[h].body = "duplicate"
        /\ resp[h].rec

(***************************************************************************)
(* Properties of the county and city resolution.                           *)
(***************************************************************************)
\* C10: for every address and every behaviour of the geocoding provider
\* (a location, no result, a time-out, another exception) the call of
\* resolve_county_and_city ends by returning a (county, city) pair, never
\* by raising.
C10_NeverRaises == gpc = "done" => gres.kind = "returned"

\* The address of the call: its state field, whether its city is Bucharest
\* in one of the two spellings, and whether the call runs validate_county.
RawCounty == Get(gaddr, "state", <<>>)

CityIsBucharest ==
    str_lower(Get(gaddr, "city", S_UnknownCity)) \in {S_bucuresti, S_bucuresti_comma}

OnValidatePath ==
    \/ gentry = "validate_county"
    \/ gentry = "resolve_county_and_city" /\ ~CityIsBucharest

NormalizesToValid(raw) ==
    /\ raw # <<>>
    /\ str_lower(normalize_county(raw)) \in ValidLower

\* C11: when the raw county normalizes to a member of the valid-county set
\* (compared without regard to case), validate_county issues no geocoding
\* query and returns, for every address.
C11_ValidCountyNoLookup ==
    OnValidatePath /\ NormalizesToValid(RawCounty) =>
        /\ gqueries = <<>>
        /\ gpc \in {"start", "validate", "done"}
        /\ gpc = "done" => gres.kind = "returned"

\* C11 witness: validate_county returned for the state "satu mare" without
\* a query.
C11_Witness ==
    /\ gentry = "validate_county"
    /\ gpc = "done"
    /\ RawCounty = <<"s", "a", "t", "u", " ", "m", "a", "r", "e">>
    /\ gres.kind = "returned"
    /\ gqueries = <<>>

\* C12: for a raw county that is a valid-county name in any case or
\* diacritic variant, validate_county returns the entry of VALID_COUNTIES
\* it matched, letter for letter.
C12_ReturnsCanonical ==
    OnValidatePath /\ NormalizesToValid(RawCounty) /\ gpc = "done" =>
        \E i \in 1..Len(VALID_COUNTIES) :
            /\ str_lower(normalize_county(RawCounty)) = str_lower(VALID_COUNTIES[i])
            /\ gres.county = VALID_COUNTIES[i]

\* C13: for an address whose city is Bucharest in either spelling and any
\* case, resolve_county_and_city (of geocoding.py and of utils.py) never
\* enters validate_county or another county lookup, and the pair it returns
\* has the county "Bucuresti" whatever the state field holds.
C13_BucharestOverridesState ==
    gentry \in {"resolve_county_and_city", "utils.resolve_county_and_city"}
      /\ CityIsBucharest =>
        /\ gpc \in {"start", "sector_query", "done"}
        /\ \A i \in 1..Len(gqueries) : gqueries[i].kind = "sector"
        /\ gres.kind = "returned" => gres.county = S_Bucuresti

\* C13 witness: the city in capitals with the diacritic, the state another
\* valid county, and the county returned is "Bucuresti".
C13_Witness ==
    /\ gentry = "resolve_county_and_city"
    /\ gpc = "done"
    /\ gaddr.city = <<"B", "U", "C", "U", "R", "E", "S_comma", "T", "I">>
    /\ gaddr.state = <<"C", "l", "u", "j">>
    /\ gres.kind = "returned"
    /\ gres.county = S_Bucuresti

\* C14: for a Bucharest address with a 'Sector <digits>' match in line1 or
\* line2, no geocoding query is issued and the city returned is the match
\* of line1 when line1 has one, else the match of line2.
C14_SectorTextWins ==
    LET line1 == Get(gaddr, "line1", <<>>)
        line2 == Get(gaddr, "line2", <<>>)
    IN gentry \in {"resolve_county_and_city", "utils.resolve_county_and_city"}
         /\ CityIsBucharest
         /\ (sector_search(line1) # <<>> \/ sector_search(line2) # <<>>) =>
           /\ gqueries = <<>>
           /\ gpc \in {"start", "done"}
           /\ gpc = "done" =>
                 gres = ReturnPair(S_Bucuresti,
                                   IF sector_search(line1) # <<>>
                                   THEN sector_search(line1)
                                   ELSE sector_search(line2))

\* C14 witness: both lines hold a sector and the one of line1 is returned.
C14_Witness ==
    /\ gentry = "resolve_county_and_city"
    /\ gpc = "done"
    /\ CityIsBucharest
    /\ sector_search(Get(gaddr, "line1", <<>>)) = <<"S", "e", "c", "t", "o", "r", " ", "3">>
    /\ sector_search(Get(gaddr, "line2", <<>>)) = <<"s", "e", "c", "t", "o", "r", "5">>
    /\ gres.city = <<"S", "e", "c", "t", "o", "r", " ", "3">>
    /\ gqueries = <<>>

\* C15: normalize_county applied to its own result gives that result
\* again, for every input string.
C15_NormalizeIdempotent ==
    \A i \in 2..Len(ncalls) : ncalls[i] = ncalls[i - 1]

\* C15 witness: an input the first application changed (whitespace
\* trimmed, a diacritic dropped, the case set) and the second left alone.
C15_Witness ==
    /\ nx = <<" ", "S_comma", "B">>
    /\ Len(ncalls) = MaxApplications
    /\ ncalls[1] = <<"S", "b">>
    /\ ncalls[MaxApplications] = ncalls[1]

\* C16: with the test-mode flag set, the payload build_payload assembled
\* has no payment section.
C16_TestModeNoPayment ==
    \A h \in Handlers :
        TEST_MODE /\ run[h].payload # {} => "payment" \notin run[h].payload

C18_BoundedRetry ==
    /\ [](\A h \in Handlers :
            /\ pc[h] = "create" => attempt[h] < MaxAttempts
            /\ run[h].raisedAt = "create" =>
                  /\ ~run[h].created
                  /\ pc[h] \in {"except", "rollback", "returned"}
                  /\ Returned(h) /\ run[h].alerted =>
                        run[h].removed /\ ~resp[h].rec /\ resp[h].body = "error")
    /\ [][\A h \in Handlers :
            pc[h] = "create" =>
                \/ UNCHANGED <<pc[h], attempt[h], run[h]>>
                \/ /\ pc'[h] = "create"
                   /\ attempt'[h] = attempt[h] + 1
                   /\ ~run'[h].created
                \/ /\ pc'[h] = "email"
                   /\ run'[h].created
                \/ /\ pc'[h] = "except"
                   /\ run'[h].raisedAt = "create" => attempt[h] + 1 = MaxAttempts
                   /\ run'[h].raisedAt # "create" => run'[h].created
                \/ pc'[h] = "idle"]_vars

\* C18 as stated, its last part: a run whose last attempt failed, the
\* failure being re-raised to the handler, returns with the event rolled
\* back.
C18_ExhaustedRetryRollsBack ==
    \A h \in Handlers :
        Returned(h) /\ run[h].raisedAt = "create" =>
            run[h].removed /\ ~resp[h].rec

\* C18 witness: a run whose every attempt failed was rolled back.
C18_Witness ==
    \E h \in Handlers :
        /\ Returned(h)
        /\ run[h].raisedAt = "create"
        /\ run[h].removed
        /\ resp[h].body = "error"

\* C19: the county the resolver of the webhook pipeline returns for an
\* address outside Bucharest is the output of validate_county: the
\* normalized state when that is a valid county, and else a county that
\* came out of the geocoding chain, never the state copied without a
\* lookup.
C19_PayloadCountyValidated ==
    gentry = "utils.resolve_county_and_city" /\ ~CityIsBucharest
      /\ gpc = "done" /\ gres.kind = "returned" =>
        IF NormalizesToValid(RawCounty)
        THEN gres.county = normalize_county(RawCounty)
        ELSE gqueries # <<>>

\* C20: validate_county issues at most two queries, the postal-code query
\* first and at most once, the city query at most once and only after a
\* postal-code query that gave no county; whatever the postal-code query
\* did without giving a county (no result, no county field, a time-out or
\* another exception), the city query follows.
C20_FixedFallbackChain ==
    OnValidatePath =>
        /\ Len(gqueries) <= 2
        /\ \A i \in 1..Len(gqueries) :
              gqueries[i].kind = IF i = 1 THEN "postal" ELSE "city"
        /\ Len(gqueries) = 2 => gqueries[1].found = <<>>
        /\ gpc = "done" /\ Len(gqueries) = 1 =>
              gqueries[1].found # <<>> /\ gres.kind = "returned"
        /\ gpc = "city_query" => Len(gqueries) = 1
        /\ gpc = "done" => gres.kind = "returned"

\* C20 witness: the postal-code query raised another exception than a
\* time-out and the city query ran and gave the county.
C20_Witness ==
    /\ gentry = "validate_county"
    /\ gpc = "done"
    /\ Len(gqueries) = 2
    /\ gqueries[1].out = "error"
    /\ gqueries[2].out = "location"
    /\ gqueries[2].found # <<>>
    /\ gres.kind = "returned"

(***************************************************************************)
(* Properties of the lookups of validate_county and of the sector lookup.  *)
(***************************************************************************)
NoCountyField(data) ==
    data.county = <<>> /\ data.state = <<>> /\ data.region = <<>>

YieldsNothing == {"none", "timeout", "error"}

\* C21: when the postal-code lookup (issued because the raw county is
\* absent or not valid) answers with a breakdown that has a county, state
\* or region field, validate_county returns normalize_county of the county
\* field if there is one, else of the state field, else of the region
\* field, and issues no other query.
C21_PostalCountyReturned ==
    OnValidatePath /\ Len(gqueries) >= 1 /\ gqueries[1].out = "location"
      /\ ~NoCountyField(gqueries[1].data) =>
        LET d == gqueries[1].data
        IN /\ ~NormalizesToValid(RawCounty)
           /\ gpc = "done"
           /\ Len(gqueries) = 1
           /\ gres.kind = "returned"
           /\ gres.county =
                normalize_county(IF d.county # <<>> THEN d.county
                                 ELSE IF d.state # <<>> THEN d.state
                                 ELSE d.region)

\* C21 witness: the raw county "Kolozsvar", a breakdown without county but
\* with state and region, and the normalized state returned.
C21_Witness ==
    /\ gentry = "validate_county"
    /\ gpc = "done"
    /\ RawCounty = <<"K", "o", "l", "o", "z", "s", "v", "a", "r">>
    /\ Len(gqueries) = 1
    /\ gqueries[1].out = "location"
    /\ gqueries[1].data.county = <<>>
    /\ gqueries[1].data.state = <<"I", "l", "f", "o", "v">>
    /\ gqueries[1].data.region # <<>>
    /\ gres.county = <<"I", "l", "f", "o", "v">>

\* C22: when the city lookup answers with a location whose breakdown has no
\* county, state or region field, validate_county returns "Unknown County",
\* character for character.
C22_CityLookupSentinel ==
    OnValidatePath /\ gpc = "done" /\ Len(gqueries) = 2
      /\ gqueries[2].out = "location" /\ NoCountyField(gqueries[2].data) =>
        gres.kind = "returned" /\ gres.county = S_UnknownCounty

\* C23: when both queries of validate_county yield nothing (no result, a
\* time-out or another exception), the function returns the normalized raw
\* county if one was supplied and "Unknown County" otherwise.
C23_LookupsFailFallback ==
    OnValidatePath /\ gpc = "done" /\ Len(gqueries) = 2
      /\ gqueries[1].out \in YieldsNothing /\ gqueries[2].out \in YieldsNothing =>
        /\ gres.kind = "returned"
        /\ gres.county = IF RawCounty # <<>> THEN normalize_county(RawCounty)
                         ELSE S_UnknownCounty

\* C23 witness: the raw county "Kolozsvar", the postal-code query timed
\* out, the city query raised, and "Kolozsvar" is returned.
C23_Witness ==
    /\ gentry = "validate_county"
    /\ gpc = "done"
    /\ RawCounty = <<"K", "o", "l", "o", "z", "s", "v", "a", "r">>
    /\ Len(gqueries) = 2
    /\ gqueries[1].out = "timeout"
    /\ gqueries[2].out = "error"
    /\ gres.county = <<"K", "o", "l", "o", "z", "s", "v", "a", "r">>

C25_OtherTypesMarkedOnly ==
    \A h \in Handlers :
        /\ run[h].passed /\ run[h].type # "checkout.session.completed" =>
              /\ pc[h] \in {"mark", "return_ok", "returned"}
              /\ run[h].payload = {}
              /\ ~run[h].created /\ ~run[h].deleted
              /\ ~run[h].emailFailed /\ ~run[h].alerted /\ ~run[h].removed
              /\ run[h].raisedAt = "none"
              /\ pc[h] \in {"return_ok", "returned"} =>
                    run[h].wrote /\ run[h].id \in store
              /\ Returned(h) =>
                    /\ resp[h].status = 200
                    /\ resp[h].body = "success"
                    /\ resp[h].rec
        /\ run[h].checked /\ run[h].gateAtCheck = "done" =>
              ~run[h].passed /\ run[h].id \in store

\* C25 witness: a customer.created event was marked and answered with
\* success, its record in the store.
C25_Witness ==
    \E h \in Handlers :
        /\ Returned(h)
        /\ run[h].type = "customer.created"
        /\ run[h].wrote
        /\ resp[h].body = "success"
        /\ run[h].id \in store

\* C26: a run whose session has a created or an amount_total that is no
\* number ends with build_payload raised, no create_smartbill_invoice call,
\* the error outcome and the record of the event removed.
C26_BadSessionRollsBack ==
    \A h \in Handlers :
        Returned(h)
          /\ ("text" \in {run[h].session.created, run[h].session.amount_total}) =>
            /\ run[h].raisedAt = "build"
            /\ ~run[h].created
            /\ resp[h].body = "error"
            /\ run[h].removed
            /\ ~resp[h].rec

\* C27: with deliveries handled one after the other no run creates an
\* invoice for an id for which an invoice was created before.
C27_AtMostOneInvoice ==
    \A h \in Handlers : run[h].created => ~run[h].invoicedBefore

\* C28: with interleaved handlers, in every state where some handler has
\* returned success for an id the record of the id is in the store.
C28_SuccessKeepsRecord == \A id \in succeeded : is_event_processed(store, id)

\* C29: a run whose top-level error handler's alert raised still removed
\* the record of its event and returned the error response.
C29_AlertFailureStillRollsBack ==
    \A h \in Handlers :
        Returned(h) /\ run[h].alertFailed =>
            /\ run[h].removed
            /\ ~resp[h].rec
            /\ resp[h].body = "error"

\* C30: the county of a pair resolve_county_and_city returns is never the
\* empty string.
C30_CountyNeverEmpty ==
    gentry = "resolve_county_and_city" /\ gpc = "done"
      /\ gres.kind = "returned" =>
        gres.county # <<>>

====
